---- MODULE Spec2Model ----
(***************************************************************************)
(* joyful.three.js: the point ring buffer (usePoints / Points), the        *)
(* streaming hook usePointCloud2 (producer timer, throttled consumer,      *)
(* instance eviction) and the Viewer render loop and teardown.             *)
(*                                                                         *)
(* Three specifications share the variables:                               *)
(*   SpecPoints  one usePoints buffer: addPoint, update, the clock         *)
(*   SpecViewer  one Viewer driven by an arbitrary caller, calls made from *)
(*               inside a frame (scene callbacks during render) included   *)
(*   SpecCloud   the usePointCloud2 component: mount, producer, consumer,  *)
(*               the viewer's frames, unmount                              *)
(*                                                                         *)
(* Numbers: positions and colours are integers (exact in a Float32Array).  *)
(* The alpha channel is kept as a numerator over decayTime, so 1.0 is      *)
(* decayTime and 1 - dt/decayTime is decayTime - dt.                       *)
(***************************************************************************)
EXTENDS Integers, Sequences, FiniteSets, TLC

\* ------------------------------------------------------------ bounds
MaxCap == 3          \* largest buffer capacity (maxPoints) tried
MaxDecay == 2        \* largest decayTime tried
MaxThrottle == 2     \* largest throttleRate tried
MaxAdds == 4         \* addPoint calls per run of SpecPoints
MaxTime == 4         \* clock ticks after Clock0
MaxObjs == 2         \* drawables a caller adds in SpecViewer
MaxDepth == 2        \* nested run() activations in flight
MaxLoops == 2        \* pending frame callbacks of one viewer
MaxBatches == 12     \* batches the producer makes in SpecCloud
MaxDrift == 1        \* clock ticks between the two Date.now() of one consumer tick
MaxResizes == 1      \* resize timer periods that pass in SpecThree
Clock0 == 10         \* Date.now() at the start of a run, above every rate and decay tried

\* ------------------------------------------------------------ program constants
max == 20000         \* use-point-cloud.ts:39
ResizeDelay == 200   \* part_000:122, the delay of the resize timer in useThreejs
BatchPoints == 2000  \* use-point-cloud.ts:67


Min(a, b) == IF a < b THEN a ELSE b

VARIABLES
    \* the clock read by Date.now()
    clock,
    \* configuration (hook parameters)
    maxPoints, alpha, decayTime, throttleRate,
    \* usePoints
    position, color, timestamps, currentIndex, drawCount,
    \* Viewer
    destroy, requestId, scene, camera, renderer, controls, stats, observer,
    \* the browser: pending frame callbacks of the viewer, run() activations in flight
    frames, inflight,
    \* the THREE.Scene object's children and every drawable's release counts
    children, res,
    \* the ring buffer of every Points instance a caller has made
    instances,
    \* the camera object's position, the width and height last applied to the
    \* camera and the renderer
    cameraPos, size,
    \* the host element's client size, and the time at which the pending resize
    \* timer of useThreejs is due (0: none pending)
    elSize, resizeTimeout,
    \* usePointCloud2
    phase, index, lastRenderTime, pointCloudQueue, pointInstanceArray, timer, tickRaf,
    \* history: the batches made into a Points instance, in that order
    materialized,
    \* whether some consumer tick has read two different times
    drifted,
    \* history: points inserted, points enqueued, whether dispose() has returned,
    \* whether start() has restarted the loop since, whether stop() has returned
    \* with no start() call since, whether update() has run, and what the last step
    \* was and did
    inserted, enqueued, disposed, resumed, stopped, updated, last,
    \* whether init() is inside its call of the caller's add(points)
    adding

\* groups
cfgVars == <<maxPoints, alpha, decayTime, throttleRate>>
ptVars == <<position, color, timestamps, currentIndex, drawCount, inserted, updated,
           adding>>
loopVars == <<destroy, requestId, frames, inflight>>
handleVars == <<scene, camera, renderer, controls, stats, observer>>
sceneVars == <<children, res>>
instVars == <<instances>>
viewVars == <<cameraPos, size, elSize, resizeTimeout>>
cloudVars == <<phase, index, lastRenderTime, pointCloudQueue, pointInstanceArray,
               timer, tickRaf, enqueued, materialized, drifted>>
lifeVars == <<disposed, resumed, stopped>>
vars == <<clock, cfgVars, instVars, viewVars, ptVars, loopVars, handleVars, sceneVars, cloudVars,
          lifeVars, last>>

\* what a step did: the operation, and for a frame or a tick its effects
Did(op) == [op |-> op, render |-> FALSE, ctl |-> FALSE, sched |-> FALSE,
            now |-> 0, evicted |-> 0, consumed |-> 0, throttled |-> FALSE,
            pushed |-> FALSE, applied |-> FALSE, threw |-> FALSE]

\* ====================================================================
\* usePoints: the ring buffer
\* ====================================================================

\* const colorLength = alpha ? 4 : 3
colorLength == IF alpha THEN 4 ELSE 3

\* the value 1.0 of the alpha channel
AlphaOne == decayTime

\* the inputs of addPoint: <<x, y, z, r, g, b>>, colours not black
PointInputs == { <<1, 2, 3, 1, 0, 1>>, <<4, 5, 6, 0, 1, 0>> }

\* const i = currentIndex % maxPoints
SlotIndex(ci, mp) == ci % mp

\* currentIndex++
NextIndex(ci, mp) == ci + 1

\* const drawCount = Math.min(currentIndex, maxPoints)
DrawCountOf(ci, mp) == Min(ci, mp)

\* const alphaDecay = (dt) => 1.0 - Math.min(dt / decayTime, 1.0)
alphaDecay(dt) == AlphaOne - Min(dt, AlphaOne)

\* age > decayTime
FadedAtBoundary(age) == age >= decayTime
Faded(age) == age > decayTime

\* geometry.drawRange.count of a new THREE.BufferGeometry: Infinity, a number
\* above every count; it stays until the first setDrawRange
Infinity == 1000000

\* the state when usePoints() has returned: the geometry has no attributes yet
\* (no position and no colour array), timestamps is zeroed, no draw range set
PointsSetup(mp) ==
    /\ position = [j \in {} |-> 0]
    /\ color = [j \in {} |-> 0]
    /\ timestamps = [j \in 0..(mp - 1) |-> 0]
    /\ currentIndex = 0
    /\ drawCount = Infinity
    /\ inserted = <<>>
    /\ updated = FALSE
    /\ adding = FALSE

\* whether init() has given the geometry its position and colour attributes
Initialized == DOMAIN position # {}

\* the state of a buffer after init(): zeroed typed arrays, currentIndex = 0,
\* the draw range still the geometry's default
PointsInit(mp, a) ==
    /\ position = [j \in 0..(mp * 3 - 1) |-> 0]
    /\ color = [j \in 0..(mp * (IF a THEN 4 ELSE 3) - 1) |-> 0]
    /\ timestamps = [j \in 0..(mp - 1) |-> 0]
    /\ currentIndex = 0
    /\ drawCount = Infinity
    /\ inserted = <<>>
    /\ updated = FALSE
    /\ adding = FALSE

\* addPoint(x, y, z, r, g, b) at time now on the buffer buf: the buffer
\* afterwards
addPointOn(buf, x, y, z, r, g, b, now) ==
    LET i == SlotIndex(buf.currentIndex, maxPoints)
        rgb == [buf.color EXCEPT ![i * colorLength] = r,
                                 ![i * colorLength + 1] = g,
                                 ![i * colorLength + 2] = b]
    IN  [position |-> [buf.position EXCEPT ![i * 3] = x,
                                           ![i * 3 + 1] = y,
                                           ![i * 3 + 2] = z],
         color |-> IF alpha
                   THEN [rgb EXCEPT ![i * colorLength + 3] = AlphaOne]
                   ELSE rgb,
         timestamps |-> [buf.timestamps EXCEPT ![i] = now],
         currentIndex |-> NextIndex(buf.currentIndex, maxPoints),
         drawCount |-> DrawCountOf(NextIndex(buf.currentIndex, maxPoints), maxPoints)]

\* the hook's buffer: the geometry's arrays and draw range, timestamps,
\* currentIndex
Buffer ==
    [position |-> position, color |-> color, timestamps |-> timestamps,
     currentIndex |-> currentIndex, drawCount |-> drawCount]

SetBuffer(buf) ==
    /\ position' = buf.position
    /\ color' = buf.color
    /\ timestamps' = buf.timestamps
    /\ currentIndex' = buf.currentIndex
    /\ drawCount' = buf.drawCount

addPoint(x, y, z, r, g, b) == SetBuffer(addPointOn(Buffer, x, y, z, r, g, b, clock))

\* init() up to its call of the caller's add(points): zeroed position and
\* colour arrays, no draw range
init ==
    /\ SetBuffer([Buffer EXCEPT
                     !.position = [j \in 0..(maxPoints * 3 - 1) |-> 0],
                     !.color = [j \in 0..(maxPoints * colorLength - 1) |-> 0]])
    /\ adding' = TRUE

\* init() after add(points) has returned: currentIndex = 0
initReturn ==
    /\ currentIndex' = 0
    /\ adding' = FALSE
    /\ UNCHANGED <<position, color, timestamps, drawCount>>

\* the colour array after the loop of update() has handled slots 0..n-1
RECURSIVE updateLoop(_, _, _)
updateLoop(c, n, now) ==
    IF n = 0 THEN c
    ELSE LET i == n - 1
             prev == updateLoop(c, n - 1, now)
             age == now - timestamps[i]
         IN  IF alpha
             THEN [prev EXCEPT ![i * colorLength + 3] = alphaDecay(age)]
             ELSE IF Faded(age)
                  THEN [prev EXCEPT ![i * 3] = 0, ![i * 3 + 1] = 0, ![i * 3 + 2] = 0]
                  ELSE prev

update ==
    LET now == clock
        length == Min(currentIndex, maxPoints)
    IN  /\ color' = updateLoop(color, length, now)
        /\ UNCHANGED <<position, timestamps, currentIndex, drawCount>>

\* --- SpecPoints actions
\* onMounted: init() starts, once, and calls the caller's add(points)
MountStep ==
    /\ ~Initialized
    /\ init
    /\ last' = Did("mount")
    /\ UNCHANGED <<clock, cfgVars, instVars, viewVars, inserted, updated, loopVars,
                   handleVars, sceneVars, cloudVars, lifeVars>>

\* add(points) returns and init() finishes; what the callback called, addPoint
\* and update() included, ran as steps of their own while adding
MountReturn ==
    /\ adding
    /\ initReturn
    /\ last' = Did("mounted")
    /\ UNCHANGED <<clock, cfgVars, instVars, viewVars, inserted, updated, loopVars,
                   handleVars, sceneVars, cloudVars, lifeVars>>

\* addPoint(...): before init() the first array write throws a TypeError and
\* nothing has changed
AddPointStep ==
    /\ IF Initialized
       THEN /\ Len(inserted) < MaxAdds
            /\ \E p \in PointInputs :
                  /\ addPoint(p[1], p[2], p[3], p[4], p[5], p[6])
                  /\ inserted' =
                         Append(inserted, Append(p, SlotIndex(currentIndex, maxPoints)))
            /\ last' = Did("addPoint")
       ELSE /\ last' = [Did("addPoint") EXCEPT !.threw = TRUE]
            /\ UNCHANGED <<position, color, timestamps, currentIndex, drawCount,
                           inserted>>
    /\ UNCHANGED <<clock, cfgVars, instVars, viewVars, updated, adding, loopVars,
                   handleVars, sceneVars, cloudVars, lifeVars>>

\* update(): before init() the loop runs over no slot and setting needsUpdate
\* on the missing colour attribute throws a TypeError
UpdateStep ==
    /\ IF Initialized
       THEN /\ update
            /\ updated' = TRUE
            /\ last' = Did("update")
       ELSE /\ last' = [Did("update") EXCEPT !.threw = TRUE]
            /\ UNCHANGED <<position, color, timestamps, currentIndex, drawCount,
                           updated>>
    /\ UNCHANGED <<clock, cfgVars, instVars, viewVars, inserted, adding, loopVars,
                   handleVars, sceneVars, cloudVars, lifeVars>>

\* time passes
ClockStep ==
    /\ clock < Clock0 + MaxTime
    /\ clock' = clock + 1
    /\ last' = Did("clock")
    /\ UNCHANGED <<cfgVars, instVars, viewVars, ptVars, loopVars, handleVars, sceneVars, cloudVars, lifeVars>>

\* ====================================================================
\* Viewer: the render loop and teardown
\* ====================================================================

\* a drawable: the two helpers, a caller's object, or the Points of batch n
Obj(kind, n) == [kind |-> kind, n |-> n]

\* the host element's client width and height, before and after a resize
ElSizes == { <<800, 600>>, <<400, 300>> }
ElSize0 == <<800, 600>>

\* the camera positions a caller asks for; the first is the one initCamera() sets
CameraPositions == { <<10, 10, 10>>, <<0, 5, 0>> }
CameraPos0 == <<10, 10, 10>>
Fresh == [geo |-> 0, mat |-> 0]

\* one more release of a resource; 2 stands for "twice or more"
Bump(n) == IF n < 2 THEN n + 1 ELSE 2

\* the id window.requestAnimationFrame returns: one no pending callback has and
\* requestId does not hold
FreshId == CHOOSE n \in 1..(MaxLoops + 2) : n \notin (frames \cup {requestId})

\* the state after new Viewer(options): init() and its start()
ViewerInit(axisOpt, statsOpt, gridOpt) ==
    /\ scene = TRUE /\ camera = TRUE /\ renderer = TRUE /\ controls = TRUE
    /\ observer = TRUE
    /\ stats = statsOpt
    /\ instances = [o \in {} |-> 0]
    /\ cameraPos = CameraPos0
    /\ size = ElSize0
    /\ elSize = ElSize0
    /\ resizeTimeout = 0
    /\ children = (IF axisOpt THEN {Obj("axis", 0)} ELSE {})
                  \cup (IF gridOpt THEN {Obj("grid", 0)} ELSE {})
    /\ res = [o \in children |-> Fresh]
    /\ destroy = FALSE
    /\ requestId = 1
    /\ frames = {1}
    /\ inflight = 0
    /\ disposed = FALSE /\ resumed = FALSE /\ stopped = FALSE

\* no Viewer yet
ViewerNone ==
    /\ scene = FALSE /\ camera = FALSE /\ renderer = FALSE /\ controls = FALSE
    /\ observer = FALSE /\ stats = FALSE
    /\ instances = [o \in {} |-> 0]
    /\ cameraPos = <<0, 0, 0>> /\ size = <<0, 0>>
    /\ elSize = <<0, 0>> /\ resizeTimeout = 0
    /\ children = {} /\ res = [o \in {} |-> Fresh]
    /\ destroy = FALSE /\ requestId = 0 /\ frames = {} /\ inflight = 0
    /\ disposed = FALSE /\ resumed = FALSE /\ stopped = FALSE

\* this.requestId = window.requestAnimationFrame(() => this.run())
Reschedule(fr) ==
    /\ requestId' = FreshId
    /\ frames' = fr \cup {FreshId}

\* run() up to the end of renderer.render(): fr are the callbacks still pending.
\* A render calls the scene's callbacks, from which the caller can reach the
\* viewer: the activation stays in flight until RunEnd. Without a renderer
\* run() goes straight on to its last line.
run(op, fr, d) ==
    IF d
    THEN /\ frames' = fr
         /\ last' = Did(op)
         /\ UNCHANGED <<requestId, inflight>>
    ELSE IF renderer /\ scene /\ camera
         THEN /\ inflight < MaxDepth
              /\ inflight' = inflight + 1
              /\ frames' = fr
              /\ last' = [Did(op) EXCEPT !.render = TRUE, !.ctl = controls]
              /\ UNCHANGED requestId
         ELSE /\ Reschedule(fr)
              /\ last' = [Did(op) EXCEPT !.ctl = controls, !.sched = TRUE]
              /\ UNCHANGED inflight

\* the browser calls a pending frame callback
FrameFire ==
    /\ inflight = 0
    /\ phase \in {"none", "mounted", "unmounted"}
    /\ \E id \in frames : run("frame", frames \ {id}, destroy)
    /\ UNCHANGED <<destroy, clock, cfgVars, instVars, viewVars, ptVars, handleVars, sceneVars, cloudVars,
                   lifeVars>>

\* the rest of run() once render has returned: stats.update() and the reschedule
RunEnd ==
    /\ inflight > 0
    /\ inflight' = inflight - 1
    /\ Reschedule(frames)
    /\ last' = [Did("runEnd") EXCEPT !.sched = TRUE]
    /\ UNCHANGED <<destroy, clock, cfgVars, instVars, viewVars, ptVars, handleVars, sceneVars, cloudVars,
                   lifeVars>>

start ==
    IF requestId = 0
    THEN /\ Cardinality(frames) + inflight < MaxLoops
         /\ destroy' = FALSE
         /\ run("start", frames, FALSE)
         /\ resumed' = (resumed \/ disposed)
    ELSE /\ last' = Did("start")
         /\ UNCHANGED <<loopVars, resumed>>

\* stop(): the pending callbacks left
stop(fr, rid) == IF rid # 0 THEN fr \ {rid} ELSE fr

\* scene.traverse(...) in dispose(): every drawable's geometry and material
Released(r, objs) ==
    [o \in DOMAIN r |-> IF o \in objs
                        THEN [geo |-> Bump(r[o].geo), mat |-> Bump(r[o].mat)]
                        ELSE r[o]]

dispose ==
    /\ destroy' = TRUE
    /\ frames' = stop(frames, requestId)
    /\ requestId' = 0
    /\ observer' = FALSE
    /\ stats' = FALSE
    /\ IF scene
       THEN /\ res' = Released(res, children)
            /\ children' = {}
       ELSE UNCHANGED <<res, children>>
    /\ scene' = FALSE /\ camera' = FALSE /\ controls' = FALSE /\ renderer' = FALSE
    /\ disposed' = TRUE
    /\ resumed' = FALSE
    /\ stopped' = TRUE
    /\ last' = Did("dispose")
    /\ UNCHANGED inflight

\* add(obj): this.scene?.add(obj)
add(o) ==
    /\ IF scene
       THEN /\ children' = children \cup {o}
            /\ res' = IF o \in DOMAIN res THEN res ELSE res @@ (o :> Fresh)
       ELSE UNCHANGED <<children, res>>
    /\ last' = Did("add")

\* setCameraPosition(x, y, z): if (this.camera) position.set, lookAt
setCameraPositionAlways(pos) ==
    /\ cameraPos' = pos
    /\ last' = Did("setCamera")

setCameraPosition(pos) ==
    /\ cameraPos' = IF camera THEN pos ELSE cameraPos
    /\ last' = Did("setCamera")

\* getScene(), getCamera(), getRenderer(): whether the handle returned is an
\* object (TRUE) or null (FALSE)
getScene == scene
getCamera == camera
getRenderer == renderer

\* resize(): the observer's callback applies the element's size at once
resize(sz) ==
    IF camera /\ renderer
    THEN /\ size' = sz
         /\ last' = [Did("resize") EXCEPT !.now = clock, !.applied = TRUE]
    ELSE /\ last' = [Did("resize") EXCEPT !.now = clock]
         /\ UNCHANGED size

\* --- SpecViewer actions: the caller, between frames or from inside one
StartCall ==
    /\ start
    /\ stopped' = FALSE
    /\ UNCHANGED <<clock, cfgVars, instVars, viewVars, ptVars, handleVars, sceneVars, cloudVars, disposed>>

StopCall ==
    /\ frames' = stop(frames, requestId)
    /\ requestId' = 0
    /\ last' = Did("stop")
    /\ stopped' = TRUE
    /\ UNCHANGED <<destroy, inflight, clock, cfgVars, instVars, viewVars, ptVars, handleVars, sceneVars,
                   cloudVars, disposed, resumed>>

DisposeCall ==
    /\ dispose
    /\ UNCHANGED <<clock, cfgVars, instVars, viewVars, ptVars, cloudVars>>

AddCall ==
    /\ \E n \in 1..MaxObjs : add(Obj("object", n))
    /\ UNCHANGED <<clock, cfgVars, instVars, viewVars, ptVars, loopVars, handleVars, cloudVars, lifeVars>>

SetCameraCall ==
    /\ \E pos \in CameraPositions : setCameraPosition(pos)
    /\ UNCHANGED <<clock, cfgVars, instVars, size, elSize, resizeTimeout, ptVars, loopVars,
                   handleVars, sceneVars,
                   cloudVars, lifeVars>>

\* the browser delivers a resize of the host element to the observer, between
\* tasks
ResizeEvent ==
    /\ observer
    /\ inflight = 0
    /\ \E sz \in ElSizes : elSize' = sz /\ resize(sz)
    /\ UNCHANGED <<clock, cfgVars, instVars, cameraPos, resizeTimeout, ptVars, loopVars,
                   handleVars, sceneVars,
                   cloudVars, lifeVars>>

\* ====================================================================
\* Points (the class usePointCloud2 instantiates) and usePointCloud2
\* ====================================================================

\* Points.dispose(): scene.remove(points), geometry.dispose(), material.dispose()
PointsDispose(r, objs) ==
    [o \in DOMAIN r |-> IF o \in objs
                        THEN [geo |-> Bump(r[o].geo), mat |-> Bump(r[o].mat)]
                        ELSE r[o]]

\* a Points instance after its constructor: initGeometry() makes zeroed
\* position and colour arrays, currentIndex = 0, no draw range set
PointsNew(mp, a) ==
    [maxPoints |-> mp,
     alpha |-> a,
     currentIndex |-> 0,
     position |-> [j \in 0..(mp * 3 - 1) |-> 0],
     color |-> [j \in 0..(mp * (IF a THEN 4 ELSE 3) - 1) |-> 0],
     drawCount |-> Infinity]

\* Points.addPoint(x, y, z, r, g, b) on the instance p: the instance afterwards
PointsAddPoint(p, x, y, z, r, g, b) ==
    LET i == SlotIndex(p.currentIndex, p.maxPoints)
        cl == IF p.alpha THEN 4 ELSE 3
        rgb == [p.color EXCEPT ![i * cl] = r, ![i * cl + 1] = g, ![i * cl + 2] = b]
    IN  [p EXCEPT !.position = [p.position EXCEPT ![i * 3] = x,
                                                  ![i * 3 + 1] = y,
                                                  ![i * 3 + 2] = z],
                  !.color = IF p.alpha THEN [rgb EXCEPT ![i * cl + 3] = 1] ELSE rgb,
                  !.currentIndex = NextIndex(p.currentIndex, p.maxPoints),
                  !.drawCount = DrawCountOf(NextIndex(p.currentIndex, p.maxPoints),
                                            p.maxPoints)]

\* new Points({ scene: viewer.getScene(), maxPoints, alpha }): geometry and
\* material are made and the drawable is added to the scene when the viewer
\* still has one
NewPointsCall ==
    /\ \E n \in 1..MaxObjs :
          /\ Obj("points", n) \notin DOMAIN res
          /\ res' = res @@ (Obj("points", n) :> Fresh)
          /\ children' = IF scene THEN children \cup {Obj("points", n)} ELSE children
          /\ instances' = instances @@ (Obj("points", n) :> PointsNew(maxPoints, alpha))
    /\ last' = Did("newPoints")
    /\ UNCHANGED <<clock, cfgVars, viewVars, ptVars, loopVars, handleVars, cloudVars,
                   lifeVars>>

\* the caller calls addPoint on a Points it made, disposed or not
PointsAddPointCall ==
    /\ \E o \in DOMAIN instances, p \in PointInputs :
          /\ instances[o].currentIndex < MaxAdds
          /\ instances' = [instances EXCEPT
                               ![o] = PointsAddPoint(instances[o], p[1], p[2], p[3],
                                                     p[4], p[5], p[6])]
    /\ last' = Did("pointsAddPoint")
    /\ UNCHANGED <<clock, cfgVars, viewVars, ptVars, loopVars, handleVars, sceneVars,
                   cloudVars, lifeVars>>

\* the caller calls dispose() on a Points it made
PointsDisposeCall ==
    /\ \E o \in DOMAIN res :
          /\ o.kind = "points"
          /\ children' = children \ {o}
          /\ res' = PointsDispose(res, {o})
    /\ last' = Did("pointsDispose")
    /\ UNCHANGED <<clock, cfgVars, instVars, viewVars, ptVars, loopVars, handleVars, cloudVars, lifeVars>>

\* now - pointInstanceArray[0].timestamps > decayTime
ExpiredAtBoundary(now, created) == now - created >= decayTime
Expired(now, created) == now - created > decayTime

\* now - lastRenderTime < throttleRate
ThrottledNever(now, lastTime) == FALSE
Throttled(now, lastTime) == now - lastTime < throttleRate

\* lastRenderTime = now
NextRenderTimeKept(now, lastTime) == lastTime
NextRenderTime(now, lastTime) == now

\* the hook's state when onMounted has built the Viewer and is about to subscribe()
CloudInit ==
    /\ phase = "mountMessage"
    /\ index = 0
    /\ lastRenderTime = 0
    /\ pointCloudQueue = <<>>
    /\ pointInstanceArray = <<>>
    /\ timer = FALSE
    /\ tickRaf = FALSE
    /\ enqueued = 0
    /\ materialized = <<>> /\ drifted = FALSE

\* no usePointCloud2 component
CloudNone ==
    /\ phase = "none" /\ index = 0 /\ lastRenderTime = 0
    /\ pointCloudQueue = <<>> /\ pointInstanceArray = <<>>
    /\ timer = FALSE /\ tickRaf = FALSE /\ enqueued = 0 /\ materialized = <<>> /\ drifted = FALSE

\* a callback of the hook runs: as a step of subscribe() at mount, or later from
\* its timer or frame request, between the viewer's frames
Runs(step, pending) ==
    \/ phase = step
    \/ phase \in {"mounted", "unmounted"} /\ pending /\ inflight = 0

\* processMessage(): one batch of BatchPoints points, numbered index + 1
processMessage ==
    IF index >= max
    THEN /\ timer' = FALSE
         /\ last' = Did("message")
         /\ UNCHANGED <<index, pointCloudQueue, enqueued>>
    ELSE /\ index < MaxBatches
         /\ pointCloudQueue' = Append(pointCloudQueue, index + 1)
         /\ enqueued' = enqueued + BatchPoints
         /\ index' = index + 1
         /\ timer' = TRUE
         /\ last' = [Did("message") EXCEPT !.pushed = TRUE]

\* pointInstanceArray.length === 0 && pointCloudQueue.length === 0
IdleQueueOnly(q, a) == q = <<>>
Idle(q, a) == a = <<>> /\ q = <<>>

\* pointCloudQueue.shift(): the batch taken
TakenLast(q) == q[Len(q)]
Taken(q) == Head(q)

\* pointInstanceArray.push({ instance, timestamps: Date.now() })
PushedFront(a, item) == <<item>> \o a
Pushed(a, item) == Append(a, item)

\* processQueue(): one consumer tick
processQueue ==
    LET now == clock
        idle == Idle(pointCloudQueue, pointInstanceArray)
        evict == /\ pointInstanceArray # <<>>
                 /\ Expired(now, pointInstanceArray[1].timestamps)
        kept == IF evict THEN Tail(pointInstanceArray) ELSE pointInstanceArray
        gone == IF evict THEN {Obj("points", pointInstanceArray[1].instance)} ELSE {}
        throttled == pointCloudQueue # <<>> /\ Throttled(now, lastRenderTime)
        consume == pointCloudQueue # <<>> /\ ~throttled
        did == [Did("tick") EXCEPT !.now = now, !.throttled = throttled,
                    !.evicted = IF evict THEN pointInstanceArray[1].instance ELSE 0]
    IN  IF idle
        THEN /\ tickRaf' = FALSE
             /\ last' = Did("tick")
             /\ UNCHANGED <<clock, pointInstanceArray, pointCloudQueue, lastRenderTime,
                            children, res, materialized, drifted>>
        ELSE /\ tickRaf' = TRUE
             /\ IF consume
                THEN \E d \in 0..MaxDrift :
                        LET n == Taken(pointCloudQueue)
                            made == [instance |-> n, timestamps |-> clock + d,
                                     currentIndex |-> BatchPoints,
                                     drawCount |-> DrawCountOf(BatchPoints, maxPoints)]
                        IN  /\ clock + d <= Clock0 + MaxTime
                            /\ clock' = clock + d
                            /\ pointCloudQueue' = Tail(pointCloudQueue)
                            /\ pointInstanceArray' = Pushed(kept, made)
                            /\ children' = (children \ gone) \cup {Obj("points", n)}
                            /\ res' = PointsDispose(res, gone) @@ (Obj("points", n) :> Fresh)
                            /\ lastRenderTime' = NextRenderTime(now, lastRenderTime)
                            /\ materialized' = Append(materialized, n)
                            /\ drifted' = (drifted \/ d > 0)
                            /\ last' = [did EXCEPT !.consumed = n]
                ELSE /\ pointInstanceArray' = kept
                     /\ children' = children \ gone
                     /\ res' = PointsDispose(res, gone)
                     /\ last' = did
                     /\ UNCHANGED <<clock, pointCloudQueue, lastRenderTime, materialized, drifted>>

\* --- SpecCloud actions
ProcessMessage ==
    /\ Runs("mountMessage", timer)
    /\ processMessage
    /\ phase' = IF phase = "mountMessage" THEN "mountQueue" ELSE phase
    /\ UNCHANGED <<clock, cfgVars, instVars, viewVars, ptVars, loopVars, handleVars, sceneVars, lifeVars,
                   lastRenderTime, pointInstanceArray, tickRaf, materialized, drifted>>

ProcessQueue ==
    /\ Runs("mountQueue", tickRaf)
    /\ processQueue
    /\ phase' = IF phase = "mountQueue" THEN "mounted" ELSE phase
    /\ UNCHANGED <<cfgVars, instVars, viewVars, ptVars, loopVars, handleVars, lifeVars, index, timer,
                   enqueued>>

\* onUnmounted: viewer.dispose()
Unmount ==
    /\ phase = "mounted"
    /\ inflight = 0
    /\ dispose
    /\ phase' = "unmounted"
    /\ UNCHANGED <<clock, cfgVars, instVars, viewVars, ptVars, index, lastRenderTime, pointCloudQueue,
                   pointInstanceArray, timer, tickRaf, enqueued, materialized, drifted>>

\* ====================================================================
\* useThreejs: the composable with the same loop and teardown
\* ====================================================================

\* runAnimationFrame() up to the end of renderer.render(); without all four
\* handles it does nothing and requests no frame
runAnimationFrame(op, fr, d) ==
    IF d
    THEN /\ frames' = fr
         /\ last' = Did(op)
         /\ UNCHANGED <<requestId, inflight>>
    ELSE IF controls /\ renderer /\ scene /\ camera
         THEN /\ inflight < MaxDepth
              /\ inflight' = inflight + 1
              /\ frames' = fr
              /\ last' = [Did(op) EXCEPT !.render = TRUE, !.ctl = TRUE]
              /\ UNCHANGED requestId
         ELSE /\ frames' = fr
              /\ last' = Did(op)
              /\ UNCHANGED <<requestId, inflight>>

\* scene.traverse(...) in useThreejs' dispose(): the geometry test compares the
\* dispose function with the string 'function' and never holds; the material
\* is disposed
ReleasedThree(r, objs) ==
    [o \in DOMAIN r |-> IF o \in objs
                        THEN [geo |-> r[o].geo, mat |-> Bump(r[o].mat)]
                        ELSE r[o]]

\* the composable after onMounted: the four handles, the first frame rendered
\* and the next requested, the observer, then the helpers asked for; the same
\* state as a constructed Viewer
ThreeInit(axisOpt, statsOpt, gridOpt) == ViewerInit(axisOpt, statsOpt, gridOpt)

\* the callback of the resize timer: reads the element's size sz and applies it
resizeTimeoutCallbackUnguarded(sz) ==
    /\ size' = sz
    /\ last' = [Did("resizeTimer") EXCEPT !.now = clock, !.applied = TRUE]

resizeTimeoutCallback(sz) ==
    IF camera /\ renderer
    THEN /\ size' = sz
         /\ last' = [Did("resizeTimer") EXCEPT !.now = clock, !.applied = TRUE]
    ELSE /\ last' = [Did("resizeTimer") EXCEPT !.now = clock]
         /\ UNCHANGED size

\* --- SpecThree actions
ThreeFrame ==
    /\ inflight = 0
    /\ \E id \in frames : runAnimationFrame("frame", frames \ {id}, destroy)
    /\ UNCHANGED <<destroy, clock, cfgVars, instVars, viewVars, ptVars, handleVars, sceneVars, cloudVars,
                   lifeVars>>

\* the rest of runAnimationFrame() once render has returned
ThreeRunEnd ==
    /\ inflight > 0
    /\ inflight' = inflight - 1
    /\ Reschedule(frames)
    /\ last' = [Did("runEnd") EXCEPT !.sched = TRUE]
    /\ UNCHANGED <<destroy, clock, cfgVars, instVars, viewVars, ptVars, handleVars, sceneVars, cloudVars,
                   lifeVars>>

\* startAnimationFrame()
ThreeStart ==
    /\ IF requestId = 0
       THEN /\ Cardinality(frames) + inflight < MaxLoops
            /\ destroy' = FALSE
            /\ runAnimationFrame("start", frames, FALSE)
            /\ resumed' = (resumed \/ disposed)
       ELSE /\ last' = Did("start")
            /\ UNCHANGED <<loopVars, resumed>>
    /\ stopped' = FALSE
    /\ UNCHANGED <<clock, cfgVars, instVars, viewVars, ptVars, handleVars, sceneVars, cloudVars, disposed>>

\* cancelAnimationFrame()
ThreeCancel ==
    /\ frames' = stop(frames, requestId)
    /\ requestId' = 0
    /\ last' = Did("stop")
    /\ stopped' = TRUE
    /\ UNCHANGED <<destroy, inflight, clock, cfgVars, instVars, viewVars, ptVars, handleVars, sceneVars,
                   cloudVars, disposed, resumed>>

\* add(obj): if (scene) scene.add(obj)
ThreeAdd ==
    /\ \E n \in 1..MaxObjs : add(Obj("object", n))
    /\ UNCHANGED <<clock, cfgVars, instVars, viewVars, ptVars, loopVars, handleVars, cloudVars, lifeVars>>

\* setCameraPosition(x, y, z): if (camera === null) return; position.set, lookAt
ThreeSetCamera ==
    /\ \E pos \in CameraPositions : setCameraPosition(pos)
    /\ UNCHANGED <<clock, cfgVars, instVars, size, elSize, resizeTimeout, ptVars, loopVars,
                   handleVars, sceneVars, cloudVars, lifeVars>>

\* the observer's callback in resizeObserver(): a resize of the host element
\* clears the pending timer and sets a new one, due ResizeDelay later
ThreeResizeEvent ==
    /\ observer
    /\ inflight = 0
    /\ clock + ResizeDelay <= Clock0 + MaxResizes * ResizeDelay
    /\ \E sz \in ElSizes : elSize' = sz
    /\ resizeTimeout' = clock + ResizeDelay
    /\ last' = [Did("resize") EXCEPT !.now = clock]
    /\ UNCHANGED <<clock, cfgVars, instVars, cameraPos, size, ptVars, loopVars, handleVars,
                   sceneVars, cloudVars, lifeVars>>

\* time passes until the pending resize timer is due
ThreeTimerDue ==
    /\ resizeTimeout # 0
    /\ clock < resizeTimeout
    /\ clock' = resizeTimeout
    /\ last' = Did("clock")
    /\ UNCHANGED <<cfgVars, instVars, viewVars, ptVars, loopVars, handleVars, sceneVars,
                   cloudVars, lifeVars>>

\* the browser runs the resize timer's callback once it is due
ThreeResizeTimer ==
    /\ resizeTimeout # 0
    /\ clock >= resizeTimeout
    /\ inflight = 0
    /\ resizeTimeoutCallback(elSize)
    /\ resizeTimeout' = 0
    /\ UNCHANGED <<clock, cfgVars, instVars, cameraPos, elSize, ptVars, loopVars, handleVars,
                   sceneVars, cloudVars, lifeVars>>

\* onUnmounted: dispose(), which the composable does not export
ThreeDispose ==
    /\ ~disposed
    /\ inflight = 0
    /\ destroy' = TRUE
    /\ frames' = stop(frames, requestId)
    /\ requestId' = 0
    /\ IF scene /\ renderer /\ controls
       THEN /\ res' = ReleasedThree(res, children)
            /\ children' = {}
       ELSE UNCHANGED <<res, children>>
    /\ scene' = FALSE /\ camera' = FALSE /\ controls' = FALSE /\ renderer' = FALSE
    /\ observer' = FALSE
    /\ disposed' = TRUE /\ resumed' = FALSE /\ stopped' = TRUE
    /\ last' = Did("dispose")
    /\ UNCHANGED <<stats, inflight, clock, cfgVars, instVars, viewVars, ptVars, cloudVars>>

\* ====================================================================
\* specifications
\* ====================================================================

InitPoints ==
    /\ clock = Clock0
    /\ maxPoints \in 1..MaxCap
    /\ alpha \in BOOLEAN
    /\ decayTime \in 1..MaxDecay
    /\ throttleRate = 0
    /\ PointsSetup(maxPoints)
    /\ ViewerNone
    /\ CloudNone
    /\ last = Did("init")

NextPoints == MountStep \/ MountReturn \/ AddPointStep \/ UpdateStep \/ ClockStep

SpecPoints == InitPoints /\ [][NextPoints]_vars

InitViewer ==
    /\ clock = Clock0
    /\ maxPoints = 1 /\ alpha = FALSE /\ decayTime = 1 /\ throttleRate = 0
    /\ PointsInit(1, FALSE)
    /\ \E a \in BOOLEAN, s \in BOOLEAN, g \in BOOLEAN : ViewerInit(a, s, g)
    /\ CloudNone
    /\ last = Did("init")

NextViewer ==
    \/ FrameFire \/ RunEnd \/ StartCall \/ StopCall \/ DisposeCall \/ AddCall
    \/ SetCameraCall \/ ResizeEvent

SpecViewer == InitViewer /\ [][NextViewer]_vars

\* Points instances a caller makes on a Viewer, fills and disposes
InitBuffer ==
    /\ clock = Clock0
    /\ maxPoints \in 1..MaxCap /\ alpha \in BOOLEAN /\ decayTime = 1 /\ throttleRate = 0
    /\ PointsInit(maxPoints, alpha)
    /\ \E a \in BOOLEAN, s \in BOOLEAN, g \in BOOLEAN : ViewerInit(a, s, g)
    /\ CloudNone
    /\ last = Did("init")

NextBuffer ==
    \/ NewPointsCall \/ PointsAddPointCall \/ PointsDisposeCall \/ DisposeCall
    \/ FrameFire \/ RunEnd

SpecBuffer == InitBuffer /\ [][NextBuffer]_vars

InitThree ==
    /\ clock = Clock0
    /\ maxPoints = 1 /\ alpha = FALSE /\ decayTime = 1 /\ throttleRate = 0
    /\ PointsInit(1, FALSE)
    /\ \E a \in BOOLEAN, s \in BOOLEAN, g \in BOOLEAN : ThreeInit(a, s, g)
    /\ CloudNone
    /\ last = Did("init")

NextThree ==
    \/ ThreeFrame \/ ThreeRunEnd \/ ThreeStart \/ ThreeCancel \/ ThreeAdd
    \/ ThreeSetCamera \/ ThreeResizeEvent \/ ThreeTimerDue \/ ThreeResizeTimer \/ ThreeDispose

SpecThree == InitThree /\ [][NextThree]_vars

InitCloud ==
    /\ clock = Clock0
    /\ maxPoints = BatchPoints /\ alpha = FALSE
    /\ decayTime \in 1..MaxDecay
    /\ throttleRate \in 1..MaxThrottle
    /\ PointsInit(1, FALSE)
    /\ ViewerInit(TRUE, TRUE, TRUE)
    /\ CloudInit
    /\ last = Did("init")

NextCloud == ProcessMessage \/ ProcessQueue \/ FrameFire \/ RunEnd \/ Unmount \/ ClockStep

SpecCloud == InitCloud /\ [][NextCloud]_vars

\* the component when requested frame callbacks keep being delivered, a render
\* in flight returns, and the clock advances (up to its bound)
SpecCloudFair ==
    /\ InitCloud
    /\ [][NextCloud]_vars
    /\ SF_vars(ProcessQueue)
    /\ WF_vars(RunEnd)
    /\ WF_vars(ClockStep)

\* ====================================================================
\* claims
\* ====================================================================

\* slot s of the colour array as <<r, g, b>>, of the position array as <<x, y, z>>
\* the slots that hold an inserted point, and those of them in the draw range
WrittenSlots == { inserted[k][7] : k \in 1..Len(inserted) }
ActiveSlots == { s \in WrittenSlots : s < drawCount }

ColourAt(s) == <<color[s * colorLength], color[s * colorLength + 1],
                 color[s * colorLength + 2]>>
PositionAt(s) == <<position[s * 3], position[s * 3 + 1], position[s * 3 + 2]>>

\* the number of the latest insertion that went into slot s (1-based)
LatestInto(s) ==
    CHOOSE k \in 1..Len(inserted) :
        /\ inserted[k][7] = s
        /\ \A j \in 1..Len(inserted) : inserted[j][7] = s => j <= k

\* C1: after N addPoint calls on a fresh buffer of capacity C, drawCount is N
\* while N <= C and C once N > C.
C1_DrawCountIsMin ==
    LET N == Len(inserted)
    IN  drawCount = IF N <= maxPoints THEN N ELSE maxPoints

\* the ring part of C2: the k-th point written sits in slot (k-1) mod C, for
\* each of the last min(N, C) points
C2_SlotsHold ==
    LET N == Len(inserted)
        live == IF N <= maxPoints THEN N ELSE maxPoints
    IN  /\ \A k \in 1..N :
              k > N - live =>
                 /\ PositionAt((k - 1) % maxPoints) =
                        <<inserted[k][1], inserted[k][2], inserted[k][3]>>
                 /\ ~updated =>
                        ColourAt((k - 1) % maxPoints) =
                            <<inserted[k][4], inserted[k][5], inserted[k][6]>>
        /\ SlotIndex(currentIndex, maxPoints) \in DOMAIN timestamps

\* C2: after N addPoint calls the k-th inserted point sits in slot (k-1) mod C,
\* for each of the last min(N, C) insertions: its position always, its colour
\* as long as no update() has run; the slot written next lies in the buffer;
\* and no addPoint call fails.
C2_RingSlots ==
    /\ C2_SlotsHold
    /\ last.op = "addPoint" => ~last.threw

\* C3: binary mode: right after update() at time now, a slot written at t0 has
\* its inserted colour while now - t0 < decayTime and is black once
\* now - t0 >= decayTime, the boundary now - t0 = decayTime included.
C3_BinaryDecayFromBoundary ==
    (last.op = "update" /\ ~alpha) =>
        \A s \in ActiveSlots :
            LET age == clock - timestamps[s]
                p == inserted[LatestInto(s)]
            IN  /\ age < decayTime => ColourAt(s) = <<p[4], p[5], p[6]>>
                /\ age >= decayTime => ColourAt(s) = <<0, 0, 0>>

\* C4: alpha mode: right after update() at time now, every active slot's alpha
\* is clamp(1 - (now - t0)/decayTime, 0, 1) (here as a numerator over
\* decayTime), which is 0 once now - t0 >= decayTime; and an update() never
\* raises the alpha of a slot.
C4_AlphaAfterUpdate ==
    (last.op = "update" /\ alpha) =>
        \A s \in ActiveSlots :
            LET age == clock - timestamps[s]
                raw == decayTime - age
                clamped == IF raw < 0 THEN 0 ELSE IF raw > decayTime THEN decayTime ELSE raw
            IN  /\ color[s * 4 + 3] = clamped
                /\ age >= decayTime => color[s * 4 + 3] = 0

C4_AlphaNeverRises ==
    (last'.op = "update" /\ alpha) =>
        \A s \in ActiveSlots : color'[s * 4 + 3] <= color[s * 4 + 3]

C4_NeverRises == [][C4_AlphaNeverRises]_vars

\* C5: a consumer tick examines only the front of the active list: the front is
\* removed, taken out of the scene and released exactly when
\* now - createdAt > decayTime, throttled tick or not; nothing else leaves the
\* list, in a tick or in any other step.
C5_Tick ==
    LET act == pointInstanceArray
        front == Obj("points", act[1].instance)
        due == clock - act[1].timestamps > decayTime
        n == Len(act)
    IN  IF last'.op = "tick" /\ act # <<>>
        THEN IF due
             THEN /\ Len(pointInstanceArray') >= n - 1
                  /\ SubSeq(pointInstanceArray', 1, n - 1) = Tail(act)
                  /\ front \notin children'
                  /\ res'[front].geo = res[front].geo + 1
                  /\ res'[front].mat = res[front].mat + 1
                  /\ last'.evicted = act[1].instance
             ELSE /\ Len(pointInstanceArray') >= n
                  /\ SubSeq(pointInstanceArray', 1, n) = act
                  /\ last'.evicted = 0
        ELSE /\ Len(pointInstanceArray') >= n
             /\ SubSeq(pointInstanceArray', 1, n) = act

C5_EvictFrontOnly == [][C5_Tick]_vars

C5_Witness ==
    /\ last.op = "tick" /\ last.throttled /\ last.evicted # 0
    /\ pointInstanceArray # <<>>
    /\ last.now - pointInstanceArray[1].timestamps > decayTime

\* C6: the geometry and the material of a BufferInstance are released at most
\* once, whatever the interleaving of ticks, evictions and Viewer.dispose().
C6_ReleasedAtMostOnce ==
    \A o \in DOMAIN res : o.kind = "points" => res[o].geo <= 1 /\ res[o].mat <= 1

\* C7: the points ever enqueued never exceed the cap max, and once they have
\* reached it the producer has no timer pending.
C7_AdmissionCap ==
    /\ enqueued <= max
    /\ enqueued >= max => ~timer

\* C8: once dispose() has returned (and start() has not been called since) no
\* step renders, updates the orbit controls or requests a frame, and no frame
\* callback of the viewer is pending.
C8_NoFrameAfterDispose ==
    (disposed /\ ~resumed) =>
        /\ ~last.render /\ ~last.ctl /\ ~last.sched
        /\ frames = {}

\* C9: after unmount no batch is pushed to the queue and no BufferInstance is
\* created or added to the scene.
C9_NoIngestAfterUnmount ==
    phase = "unmounted" => ~last.pushed /\ last.consumed = 0

\* C10: a viewport that has not been disposed has at most one frame callback
\* pending, whatever start() and stop() calls were made.
C10_OneFrameLoop ==
    ~disposed => Cardinality(frames) <= 1

\* C11: once stop() has returned and until start() is called again, no step
\* renders, updates the orbit controls or requests a frame, also when stop()
\* was called from inside a frame.
C11_NoFrameAfterStop ==
    stopped => ~last.render /\ ~last.ctl /\ ~last.sched

\* C12: start() on a disposed viewport is a no-op: it requests no frame, runs
\* no frame body and leaves the loop stopped.
C12_StartAfterDisposeNoop ==
    (disposed /\ last.op = "start") =>
        /\ ~last.sched /\ ~last.render /\ ~last.ctl
        /\ destroy

\* C13: a dispose() call on a viewport that is already disposed changes no
\* state: nothing of the loop, of the handles, of the scene or of any
\* drawable's resources.
C13_SecondDispose ==
    (disposed /\ last'.op = "dispose") =>
        UNCHANGED <<loopVars, handleVars, sceneVars>>

C13_SecondDisposeNoop == [][C13_SecondDispose]_vars

\* C14: on a viewer that has not been disposed (so that every release is the
\* instance's own dispose()), the geometry and the material of a Points are
\* released at most once, however often its dispose() is called.
C14_PointsDisposeOnce ==
    ~disposed =>
        \A o \in DOMAIN res : o.kind = "points" => res[o].geo <= 1 /\ res[o].mat <= 1

\* C15: a dispose() that runs on an initialized viewport releases the geometry
\* and the material of every drawable then in the scene, each once, and
\* empties the scene.
C15_Dispose ==
    (last'.op = "dispose" /\ scene) =>
        /\ \A o \in children :
              /\ res'[o].geo = res[o].geo + 1
              /\ res'[o].mat = res[o].mat + 1
        /\ children' = {}

C15_DisposeReleasesAll == [][C15_Dispose]_vars

\* C16: once dispose() has returned, getScene(), getCamera() and getRenderer()
\* return null, and a call of add(drawable) or setCameraPosition(x, y, z)
\* changes nothing: not the scene, not the camera position, not any handle or
\* loop state.
C16_GettersNull == disposed => ~getScene /\ ~getCamera /\ ~getRenderer

C16_CallIsNoop ==
    (disposed /\ last'.op \in {"add", "setCamera"}) =>
        UNCHANGED <<clock, cfgVars, instVars, viewVars, ptVars, loopVars, handleVars, sceneVars,
                    cloudVars, lifeVars>>

C16_AfterDispose == [] C16_GettersNull /\ [][C16_CallIsNoop]_vars

\* setCameraPosition was called on a disposed viewer, whose camera is where
\* initCamera() put it
C16_Witness ==
    /\ disposed
    /\ last.op = "setCamera"
    /\ cameraPos = CameraPos0
    /\ ~getCamera

\* C17: a projection/size update is applied only once ResizeDelay has passed
\* with no resize event since the last one (last.now is the time of the last
\* resize event when the update is applied).
C17_ResizeAfterQuiescence == last.applied => clock - last.now >= ResizeDelay

\* C18: once the component is mounted, a processMessage() that has enqueued a
\* batch leaves the consumer tick scheduled, also when the tick had stopped
\* itself on an empty queue and an empty active list before.
C18_EnqueueRestartsTick ==
    (phase \in {"mounted", "unmounted"} /\ last.pushed) => tickRaf

\* C19: the batches materialized so far, in the order they were materialized,
\* followed by the queue, are exactly the batches 1..index in the order they
\* were enqueued: none is dropped, none is taken twice or out of order, whether
\* or not ticks were throttled; and the instances in the active list are
\* distinct batches, oldest first.
C19_NothingDroppedOrReordered ==
    /\ materialized \o pointCloudQueue = [i \in 1..index |-> i]
    /\ \A i \in 1..Len(pointInstanceArray) :
          /\ \E j \in 1..Len(materialized) :
                materialized[j] = pointInstanceArray[i].instance
          /\ \A k \in 1..Len(pointInstanceArray) :
                i < k => pointInstanceArray[i].instance < pointInstanceArray[k].instance

\* a tick consumed a batch while later batches, held back by throttled ticks or
\* a slow consumer, were still waiting behind it
C19_Witness ==
    /\ last.consumed >= 2
    /\ Len(pointCloudQueue) >= 2
    /\ materialized # <<>>
    /\ materialized[Len(materialized)] = last.consumed

\* C20: the consumer tick stays scheduled while the active list is non-empty;
\* an instance that has left the list has been disposed; and every instance
\* whose decayTime ends before the clock bound leaves the list: from some point
\* on the list holds no such instance.
Active(n) ==
    \E i \in 1..Len(pointInstanceArray) : pointInstanceArray[i].instance = n

ExpiresInTime(item) == item.timestamps + decayTime < Clock0 + MaxTime

Gone(n) ==
    /\ ~Active(n)
    /\ Obj("points", n) \in DOMAIN res
    /\ res[Obj("points", n)].geo >= 1
    /\ res[Obj("points", n)].mat >= 1

C20_TickWhileActive == pointInstanceArray # <<>> => tickRaf

C20_RemovedIsDisposed ==
    \A j \in 1..Len(materialized) : Active(materialized[j]) \/ Gone(materialized[j])

C20_NoneLeftToEvict ==
    \A i \in 1..Len(pointInstanceArray) : ~ExpiresInTime(pointInstanceArray[i])

C20_EveryInstanceEvicted ==
    /\ [] C20_TickWhileActive
    /\ [] C20_RemovedIsDisposed
    /\ <>[] C20_NoneLeftToEvict

\* a tick has evicted and disposed an instance, and the tick is still scheduled
\* for the instances behind it
C20_Witness ==
    /\ last.evicted # 0
    /\ Gone(last.evicted)
    /\ pointInstanceArray # <<>>
    /\ tickRaf

\* C21: no addPoint and no update lowers drawCount, and the slot the next
\* addPoint writes is always one of 0..maxPoints-1.
C21_SlotInRange == SlotIndex(currentIndex, maxPoints) \in 0..(maxPoints - 1)

C21_DrawCountStep ==
    last'.op \in {"addPoint", "update"} => drawCount' >= drawCount

C21_DrawCountNeverDecreases == [] C21_SlotInRange /\ [][C21_DrawCountStep]_vars

\* C22: a tick takes at most one batch from the queue; a tick that reads a time
\* less than throttleRate after lastRenderTime takes none and makes no
\* instance; a tick that takes one reads a time at least throttleRate after
\* the time read by the tick of the consumption before, and records its own.
C22_Tick ==
    last'.op = "tick" =>
        /\ Len(pointCloudQueue') >= Len(pointCloudQueue) - 1
        /\ (pointCloudQueue # <<>> /\ clock - lastRenderTime < throttleRate) =>
              /\ pointCloudQueue' = pointCloudQueue
              /\ materialized' = materialized
              /\ lastRenderTime' = lastRenderTime
              /\ last'.consumed = 0
        /\ pointCloudQueue' # pointCloudQueue =>
              /\ clock - lastRenderTime >= throttleRate
              /\ lastRenderTime' = clock
              /\ pointCloudQueue' = Tail(pointCloudQueue)

C22_ThrottleSpacing == [][C22_Tick]_vars

\* a tick after a consumption was throttled and left the waiting batches queued
C22_Witness ==
    /\ last.op = "tick"
    /\ last.throttled
    /\ pointCloudQueue # <<>>
    /\ materialized # <<>>
    /\ last.now - lastRenderTime < throttleRate

\* C23: the active list is oldest first: creation times do not decrease from
\* the front to the tail, so an instance behind the front is past decayTime
\* only if the front is.
C23_OldestFirst ==
    \A i \in 1..Len(pointInstanceArray) :
        /\ \A k \in 1..Len(pointInstanceArray) :
              i < k => pointInstanceArray[i].timestamps <= pointInstanceArray[k].timestamps
        /\ Expired(clock, pointInstanceArray[i].timestamps)
              => Expired(clock, pointInstanceArray[1].timestamps)

\* two instances made at different times are in the list, and the one behind
\* the front is past decayTime as well
C23_Witness ==
    /\ Len(pointInstanceArray) >= 2
    /\ pointInstanceArray[1].timestamps < pointInstanceArray[2].timestamps
    /\ Expired(clock, pointInstanceArray[2].timestamps)

\* C24: with throttleRate > 0, as long as every consumer tick has read one
\* time only, the active list never holds more than
\* decayTime \div throttleRate + 1 instances, however the ticks are spaced.
C24_BoundedActiveSet ==
    (throttleRate > 0 /\ ~drifted) =>
        Len(pointInstanceArray) <= (decayTime \div throttleRate) + 1

\* the list is at the bound with more than one instance, after a pause that
\* left the front past decayTime, every tick having read one time only
C24_Witness ==
    /\ throttleRate > 0 /\ ~drifted
    /\ Len(pointInstanceArray) = (decayTime \div throttleRate) + 1
    /\ Len(pointInstanceArray) >= 2
    /\ Expired(clock, pointInstanceArray[1].timestamps)
    /\ last.op = "tick"

\* C25: update() changes colour data only. It leaves positions, slot
\* timestamps, the written counter and drawCount as they are; in alpha mode it
\* leaves every RGB channel as it is and sets the alpha of each active slot from
\* that slot's timestamp; in binary mode it leaves every slot whose age is not
\* beyond decayTime as it is and blacks out the others. addPoint stamps the
\* slot it writes with the current time and writes the new colour (alpha 1),
\* so a faded slot that is overwritten shows again.
C25_Update ==
    last'.op = "update" =>
        /\ position' = position
        /\ timestamps' = timestamps
        /\ currentIndex' = currentIndex
        /\ drawCount' = drawCount
        /\ ~Initialized => color' = color
        /\ \A s \in (IF Initialized THEN 0..(maxPoints - 1) ELSE {}) :
              LET age == clock - timestamps[s]
                  active == s < Min(currentIndex, maxPoints)
              IN  /\ alpha => ColourAt(s)' = ColourAt(s)
                  /\ (alpha /\ active) =>
                        color'[s * 4 + 3] = (IF age >= decayTime THEN 0 ELSE decayTime - age)
                  /\ (alpha /\ ~active) => color'[s * 4 + 3] = color[s * 4 + 3]
                  /\ (~alpha /\ (~active \/ age <= decayTime)) => ColourAt(s)' = ColourAt(s)
                  /\ (~alpha /\ active /\ age > decayTime) => ColourAt(s)' = <<0, 0, 0>>

C25_AddPoint ==
    (last'.op = "addPoint" /\ ~last'.threw) =>
        \A w \in 0..(maxPoints - 1) :
            IF w = SlotIndex(currentIndex, maxPoints)
            THEN /\ timestamps'[w] = clock
                 /\ ColourAt(w)' = <<inserted'[Len(inserted')][4],
                                     inserted'[Len(inserted')][5],
                                     inserted'[Len(inserted')][6]>>
                 /\ alpha => color'[w * 4 + 3] = AlphaOne
            ELSE timestamps'[w] = timestamps[w]

C25_UpdateColourOnly == [][C25_Update /\ C25_AddPoint]_vars

\* binary mode, after an update on a wrapped buffer: one slot exactly decayTime
\* old has kept its colour, another one past decayTime is black
C25_Witness ==
    /\ last.op = "update" /\ ~alpha
    /\ currentIndex > maxPoints
    /\ \E s \in ActiveSlots :
          clock - timestamps[s] = decayTime /\ ColourAt(s) # <<0, 0, 0>>
    /\ \E s \in ActiveSlots :
          clock - timestamps[s] > decayTime /\ ColourAt(s) = <<0, 0, 0>>

\* C26: once dispose() has returned, the size applied to the camera and the
\* renderer never changes again, also when a resize timer set before the
\* dispose fires after it; and the observer is disconnected, so no resize
\* event is delivered any more.
C26_NoObserver == disposed => ~observer

C26_SizeKept == disposed => size' = size /\ ~last'.applied

C26_NoResizeAfterDispose == [] C26_NoObserver /\ [][C26_SizeKept]_vars

\* a resize timer set before dispose() has fired after it, with an element size
\* that was never applied
C26_Witness ==
    /\ disposed
    /\ last.op = "resizeTimer"
    /\ elSize # size
    /\ resizeTimeout = 0

====
